---- MODULE Spec2Model ----
(***************************************************************************)
(* Model of src/src/bin/day05.rs: the RangeMap lookups                     *)
(* (map_source_value_to_destination, map_source_range_to_destination_range)*)
(* and the two solvers solve_part1 and solve_part2 that drive seed values  *)
(* and seed ranges through the sequence of RangeMaps.                      *)
(*                                                                         *)
(* Two specifications share the variables:                                 *)
(*   SpecStage  one RangeMap, the two lookups called on it;                *)
(*   Spec       an input (seed_ranges, range_maps), one solver run on it.  *)
(*                                                                         *)
(* Values are usize in the source.  Every value of the model stays far     *)
(* below 2^64, so additions never wrap; subtractions are those of the      *)
(* source, on operands the source's guards order.                          *)
(***************************************************************************)
EXTENDS Integers, Sequences, FiniteSets

VARIABLES
    seed_ranges,      \* input.0: Vec<RangeInclusive<usize>>
    range_maps,       \* input.1: Vec<RangeMap>
    pc,               \* position of the running solver / harness
    seeds,            \* solve_part1: the flat seed list
    seed_idx,         \* index of the seed (range) the outer loop is at
    map_idx,          \* index of the RangeMap the middle loop is at
    range_idx,        \* solve_part2: index into dest_ranges (inner loop)
    value,            \* solve_part1: the value being mapped
    dest_ranges,      \* solve_part2: the ranges entering the current RangeMap
    new_ranges,       \* solve_part2: the ranges collected for the next one
    lowest_location,  \* Option<usize>: <<>> is None, <<n>> is Some(n)
    solution,         \* the value the solver returned
    call,             \* SpecStage: the last lookup called, argument and result
    first_run,        \* Spec: <<>>, or the seed ranges and the solution of the
                      \* first of two calls of a solver
    hand              \* SpecHand: the CardHand built, NoHand before

vars == <<seed_ranges, range_maps, pc, seeds, seed_idx, map_idx, range_idx,
          value, dest_ranges, new_ranges, lowest_location, solution, call,
          first_run, hand>>

\* No CardHand was built
NoHand == [cards |-> <<>>]

----------------------------------------------------------------------------
(* Bounds of the model *)

\* SpecStage: start values of the triples are drawn from 0..MaxVal
MaxVal == 1
\* SpecStage: lengths of the triples are drawn from 1..MaxLen
MaxLen == 2
\* SpecStage: a RangeMap holds at most MaxMappings mappings
MaxMappings == 2
\* Spec: seeds and mappings of the small inputs live in 0..MaxId
MaxId == 1

----------------------------------------------------------------------------
(* Ranges and RangeMaps *)

\* start..=end
Range(s, e) == [start |-> s, end |-> e]

\* Mutant of Contains: the lower end is not tested
ContainsUpperOnly(r, v) == v <= r.end

\* Mutant of Contains: the range taken as start..end, its end excluded
ContainsExclusive(r, v) == r.start <= v /\ v < r.end

\* RangeInclusive::contains
Contains(r, v) == r.start <= v /\ v <= r.end

\* One line "dest_start source_start range_len" of a map, as RangeMap::new
\* turns it into (dest_range, source_range)
NewMapping(dest_start, source_start, range_len) ==
    [dest   |-> Range(dest_start, dest_start + range_len - 1),
     source |-> Range(source_start, source_start + range_len - 1)]

\* RangeMap::new: the mappings in the order of the lines
RangeMapNew(triples) ==
    [i \in 1..Len(triples) |->
        NewMapping(triples[i][1], triples[i][2], triples[i][3])]

\* Mutant of MapValueHit: the offset into the source range is dropped
MapValueHitNoDelta(m, input_value) == m.dest.start

\* The value a mapping sends an input value of its source range to
MapValueHit(m, input_value) ==
    LET delta == input_value - m.source.start
    IN  m.dest.start + delta

\* Mutant of MapValueFrom: the return is missing, the mapped value goes on
\* through the mappings that follow
RECURSIVE MapValueFromNoReturn(_, _, _)
MapValueFromNoReturn(range_mappings, i, input_value) ==
    IF i > Len(range_mappings)
    THEN input_value
    ELSE IF Contains(range_mappings[i].source, input_value)
         THEN MapValueFromNoReturn(range_mappings, i + 1,
                                   MapValueHit(range_mappings[i], input_value))
         ELSE MapValueFromNoReturn(range_mappings, i + 1, input_value)

\* The loop of map_source_value_to_destination from mapping i on
RECURSIVE MapValueFrom(_, _, _)
MapValueFrom(range_mappings, i, input_value) ==
    IF i > Len(range_mappings)
    THEN input_value
    ELSE IF Contains(range_mappings[i].source, input_value)
         THEN MapValueHit(range_mappings[i], input_value)
         ELSE MapValueFrom(range_mappings, i + 1, input_value)

map_source_value_to_destination(range_mappings, input_value) ==
    MapValueFrom(range_mappings, 1, input_value)

\* Mutant of NoOverlap: only the first of the two tests
NoOverlapLeftOnly(m, input_range) == input_range.end < m.source.start

\* The skip test of map_source_range_to_destination_range
NoOverlap(m, input_range) ==
    \/ input_range.end < m.source.start
    \/ input_range.start > m.source.end

Max2(a, b) == IF a >= b THEN a ELSE b
Min2(a, b) == IF a <= b THEN a ELSE b

\* The mapped destination range pushed for an overlapping mapping
MappedPiece(m, input_range) ==
    LET overlap_start == Max2(input_range.start, m.source.start)
        overlap_end   == Min2(input_range.end, m.source.end)
        delta         == overlap_start - m.source.start
        length        == overlap_end - overlap_start
        dest_start    == m.dest.start + delta
        dest_end      == dest_start + length
    IN  Range(dest_start, dest_end)

\* Mutant of LeftPiece: <= for <, a left part also when the starts coincide
LeftPieceOnEqual(m, input_range) ==
    IF input_range.start <= m.source.start
    THEN <<Range(input_range.start, m.source.start - 1)>>
    ELSE <<>>

\* The unmapped part on the left of the source range, when there is one
LeftPiece(m, input_range) ==
    IF input_range.start < m.source.start
    THEN <<Range(input_range.start, m.source.start - 1)>>
    ELSE <<>>

\* Mutant of RightPiece: the right part starts at the source's end, not after
RightPieceFromEnd(m, input_range) ==
    IF input_range.end > m.source.end
    THEN <<Range(m.source.end, input_range.end)>>
    ELSE <<>>

\* The unmapped part on the right of the source range, when there is one
RightPiece(m, input_range) ==
    IF input_range.end > m.source.end
    THEN <<Range(m.source.end + 1, input_range.end)>>
    ELSE <<>>

\* Mutant of SplitByMapping: the unmapped parts of the input are dropped
SplitMappedOnly(m, input_range) == <<MappedPiece(m, input_range)>>

\* What the loop body pushes for the mapping it does not skip
SplitByMapping(m, input_range) ==
    <<MappedPiece(m, input_range)>> \o LeftPiece(m, input_range)
                                    \o RightPiece(m, input_range)

\* Mutant of MapRangeFrom: the break is missing, every overlapping mapping
\* pushes its pieces
RECURSIVE MapRangeFromNoBreak(_, _, _)
MapRangeFromNoBreak(range_mappings, i, input_range) ==
    IF i > Len(range_mappings)
    THEN <<>>
    ELSE IF NoOverlap(range_mappings[i], input_range)
         THEN MapRangeFromNoBreak(range_mappings, i + 1, input_range)
         ELSE SplitByMapping(range_mappings[i], input_range)
              \o MapRangeFromNoBreak(range_mappings, i + 1, input_range)

\* The loop of map_source_range_to_destination_range from mapping i on:
\* range_overlaps when the loop ends (by the break or at the end of the list)
RECURSIVE MapRangeFrom(_, _, _)
MapRangeFrom(range_mappings, i, input_range) ==
    IF i > Len(range_mappings)
    THEN <<>>
    ELSE IF NoOverlap(range_mappings[i], input_range)
         THEN MapRangeFrom(range_mappings, i + 1, input_range)
         ELSE SplitByMapping(range_mappings[i], input_range)

\* Mutant of map_source_range_to_destination_range: the final push of the
\* input range, for when nothing overlapped, is missing
MapRangeNoFallback(range_mappings, input_range) ==
    MapRangeFrom(range_mappings, 1, input_range)

map_source_range_to_destination_range(range_mappings, input_range) ==
    LET range_overlaps == MapRangeFrom(range_mappings, 1, input_range)
    IN  IF range_overlaps = <<>> THEN <<input_range>> ELSE range_overlaps

----------------------------------------------------------------------------
(* The usize arithmetic of the lookups.  A subtraction whose result would be *)
(* negative panics in a debug build and wraps in a release build; either way *)
(* the lookup has left its arithmetic.  The additions stay below 2^64 for    *)
(* every value of the model.                                                 *)

\* a - b is not a usize
Underflows(a, b) == a < b

\* input_value - source_range.start()
MapValueHitUnderflows(m, input_value) == Underflows(input_value, m.source.start)

\* The subtractions map_source_value_to_destination meets from mapping i on
RECURSIVE MapValueAborts(_, _, _)
MapValueAborts(range_mappings, i, input_value) ==
    IF i > Len(range_mappings)
    THEN FALSE
    ELSE IF Contains(range_mappings[i].source, input_value)
         THEN MapValueHitUnderflows(range_mappings[i], input_value)
         ELSE MapValueAborts(range_mappings, i + 1, input_value)

\* overlap_start - source_range.start() and overlap_end - overlap_start
MappedPieceUnderflows(m, input_range) ==
    LET overlap_start == Max2(input_range.start, m.source.start)
        overlap_end   == Min2(input_range.end, m.source.end)
    IN  \/ Underflows(overlap_start, m.source.start)
        \/ Underflows(overlap_end, overlap_start)

\* *source_range.start() - 1, evaluated when the left part is pushed
LeftPieceUnderflows(m, input_range) ==
    LeftPiece(m, input_range) # <<>> /\ Underflows(m.source.start, 1)

\* The subtractions map_source_range_to_destination_range meets from mapping
\* i on
RECURSIVE MapRangeAborts(_, _, _)
MapRangeAborts(range_mappings, i, input_range) ==
    IF i > Len(range_mappings)
    THEN FALSE
    ELSE IF NoOverlap(range_mappings[i], input_range)
         THEN MapRangeAborts(range_mappings, i + 1, input_range)
         ELSE \/ MappedPieceUnderflows(range_mappings[i], input_range)
              \/ LeftPieceUnderflows(range_mappings[i], input_range)

----------------------------------------------------------------------------
(* SpecStage: one RangeMap and the lookups called on it *)

Triples == (0..MaxVal) \X (0..MaxVal) \X (1..MaxLen)

TripleLists == UNION {[1..n -> Triples] : n \in 0..MaxMappings}

\* Values and ranges the lookups are called with: all that can meet a source
QueryVals == 0..(MaxVal + MaxLen)

QueryRanges ==
    UNION {{Range(a, b) : b \in {x \in QueryVals : x >= a}} : a \in QueryVals}

\* Scenario A: the single mapping "50 98 2" and the values looked up in it
ScenarioATriples == <<<<50, 98, 2>>>>

ScenarioAVals == {98, 99, 79}

NoCall == [fn |-> "none"]

InitStage ==
    /\ seed_ranges = <<>>
    /\ \E ts \in TripleLists \cup {ScenarioATriples} :
         range_maps = <<RangeMapNew(ts)>>
    /\ pc = "stage"
    /\ seeds = <<>>
    /\ seed_idx = 0
    /\ map_idx = 0
    /\ range_idx = 0
    /\ value = 0
    /\ dest_ranges = <<>>
    /\ new_ranges = <<>>
    /\ lowest_location = <<>>
    /\ solution = 0
    /\ call = NoCall
    /\ first_run = <<>>
    /\ hand = NoHand

CallMapValue ==
    /\ pc = "stage"
    /\ \E v \in QueryVals \cup ScenarioAVals :
         call' = [fn  |-> "map_value", arg |-> v,
                  ret |-> map_source_value_to_destination(range_maps[1], v),
                  abort |-> MapValueAborts(range_maps[1], 1, v)]
    /\ pc' = "returned"
    /\ UNCHANGED <<seed_ranges, range_maps, seeds, seed_idx, map_idx,
                   range_idx, value, dest_ranges, new_ranges,
                   lowest_location, solution,
                   first_run, hand>>

CallMapRange ==
    /\ pc = "stage"
    /\ \E r \in QueryRanges :
         call' = [fn  |-> "map_range", arg |-> r,
                  ret |-> map_source_range_to_destination_range(range_maps[1], r),
                  abort |-> MapRangeAborts(range_maps[1], 1, r)]
    /\ pc' = "returned"
    /\ UNCHANGED <<seed_ranges, range_maps, seeds, seed_idx, map_idx,
                   range_idx, value, dest_ranges, new_ranges,
                   lowest_location, solution,
                   first_run, hand>>

NextStage == CallMapValue \/ CallMapRange

SpecStage == InitStage /\ [][NextStage]_vars

----------------------------------------------------------------------------
(* Spec: the inputs *)

\* Lines of a map whose source and destination ranges lie in 0..MaxId
IdTriples ==
    {t \in (0..MaxId) \X (0..MaxId) \X (1..(MaxId + 1)) :
        t[1] + t[3] - 1 <= MaxId /\ t[2] + t[3] - 1 <= MaxId}

\* Numbers of lines of the successive maps of the small inputs
MapShapes == {<<>>, <<0>>, <<1>>, <<2>>, <<1, 1>>, <<0, 1>>}

\* Numbers of "start length" pairs on the seeds line of the small inputs
SeedCounts == {0, 1, 2}

\* The "start length" pairs whose range lies in 0..MaxId
SeedPairs ==
    {q \in (0..MaxId) \X (1..(MaxId + 1)) : q[1] + q[2] - 1 <= MaxId}

\* process_input_file: each pair becomes start..=(start + length - 1)
SeedRangesOf(pairs) ==
    [i \in 1..Len(pairs) |-> Range(pairs[i][1], pairs[i][1] + pairs[i][2] - 1)]

\* process_input_file: each "map:" chunk becomes a RangeMap
RangeMapsOf(chunks) == [i \in 1..Len(chunks) |-> RangeMapNew(chunks[i])]

\* All the chunk lists of a shape
ChunksOfShape(shape) ==
    {cs \in [1..Len(shape) ->
                UNION {[1..shape[i] -> IdTriples] : i \in 1..Len(shape)}] :
        \A i \in 1..Len(shape) : Len(cs[i]) = shape[i]}

SmallInputs ==
    {<<SeedRangesOf(ps), RangeMapsOf(cs)>> :
        ps \in UNION {[1..k -> SeedPairs] : k \in SeedCounts},
        cs \in UNION {ChunksOfShape(sh) : sh \in MapShapes}}

\* The input file of the tests test_day05_part1_ex01 and _part2_ex01
\* (./input/test/day05_01.txt): seeds 79 14 55 13 and seven maps
CanonicalSeedPairs == <<<<79, 14>>, <<55, 13>>>>

CanonicalChunks ==
    << << <<50, 98, 2>>, <<52, 50, 48>> >>,
       << <<0, 15, 37>>, <<37, 52, 2>>, <<39, 0, 15>> >>,
       << <<49, 53, 8>>, <<0, 11, 42>>, <<42, 0, 7>>, <<57, 7, 4>> >>,
       << <<88, 18, 7>>, <<18, 25, 70>> >>,
       << <<45, 77, 23>>, <<81, 45, 19>>, <<68, 64, 13>> >>,
       << <<0, 69, 1>>, <<1, 0, 69>> >>,
       << <<60, 56, 37>>, <<56, 93, 4>> >> >>

CanonicalInput ==
    <<SeedRangesOf(CanonicalSeedPairs), RangeMapsOf(CanonicalChunks)>>

\* Scenario B: the seed range [79, 92], the seed-to-soil map of the example
\* and a soil-to-fertilizer map without lines
ScenarioBSeedPairs == <<<<79, 14>>>>

ScenarioBChunks == << << <<50, 98, 2>>, <<52, 50, 48>> >>, <<>> >>

ScenarioBInput ==
    <<SeedRangesOf(ScenarioBSeedPairs), RangeMapsOf(ScenarioBChunks)>>

Inputs == SmallInputs \cup {CanonicalInput, ScenarioBInput}

----------------------------------------------------------------------------
(* Spec: solve_part1 and solve_part2 *)

\* Option<usize>
None == <<>>
Some(n) == <<n>>

\* Mutant of UpdateLowest: < for >, the greatest value is kept
UpdateLowestGreatest(lowest, v) ==
    IF lowest = <<>> \/ lowest[1] < v THEN <<v>> ELSE lowest

\* Mutant of UpdateLowest: the comparison is lost, the first value is kept
UpdateLowestFirst(lowest, v) ==
    IF lowest = <<>> THEN <<v>> ELSE lowest

\* if lowest_location.is_none() || lowest_location.unwrap() > v { Some(v) }
UpdateLowest(lowest, v) ==
    IF lowest = None \/ lowest[1] > v THEN Some(v) ELSE lowest

\* Mutant of FlatSeeds: the two ends of each range, not start and length
RECURSIVE FlatSeedsEnds(_)
FlatSeedsEnds(ranges) ==
    IF ranges = <<>>
    THEN <<>>
    ELSE <<Head(ranges).start, Head(ranges).end>> \o FlatSeedsEnds(Tail(ranges))

\* seed_ranges.iter().flat_map(|range| [start, end - start + 1]).collect()
RECURSIVE FlatSeeds(_)
FlatSeeds(ranges) ==
    IF ranges = <<>>
    THEN <<>>
    ELSE <<Head(ranges).start, Head(ranges).end - Head(ranges).start + 1>>
         \o FlatSeeds(Tail(ranges))

\* dest_ranges.iter().map(|range| range.start()).min()
MinStart(ranges) ==
    IF ranges = <<>>
    THEN None
    ELSE Some(CHOOSE x \in {ranges[k].start : k \in 1..Len(ranges)} :
                \A k \in 1..Len(ranges) : x <= ranges[k].start)

Init ==
    /\ \E input \in Inputs :
         /\ seed_ranges = input[1]
         /\ range_maps = input[2]
    /\ pc = "start"
    /\ seeds = <<>>
    /\ seed_idx = 0
    /\ map_idx = 0
    /\ range_idx = 0
    /\ value = 0
    /\ dest_ranges = <<>>
    /\ new_ranges = <<>>
    /\ lowest_location = None
    /\ solution = 0
    /\ call = NoCall
    /\ first_run = <<>>
    /\ hand = NoHand

\* solve_part1 is called: the seeds are extracted, lowest_location is None
CallSolvePart1 ==
    /\ pc = "start"
    /\ seeds' = FlatSeeds(seed_ranges)
    /\ lowest_location' = None
    /\ seed_idx' = 1
    /\ pc' = "p1_seed"
    /\ UNCHANGED <<seed_ranges, range_maps, map_idx, range_idx, value,
                   dest_ranges, new_ranges, solution, call,
                   first_run, hand>>

\* for seed in seeds { let mut value = seed;
P1NextSeed ==
    /\ pc = "p1_seed"
    /\ seed_idx <= Len(seeds)
    /\ value' = seeds[seed_idx]
    /\ map_idx' = 1
    /\ pc' = "p1_map"
    /\ UNCHANGED <<seed_ranges, range_maps, seeds, seed_idx, range_idx,
                   dest_ranges, new_ranges, lowest_location, solution, call,
                   first_run, hand>>

\* for range_map in range_maps { value = range_map.map_source_value...(value) }
P1Map ==
    /\ pc = "p1_map"
    /\ map_idx <= Len(range_maps)
    /\ value' = map_source_value_to_destination(range_maps[map_idx], value)
    /\ map_idx' = map_idx + 1
    /\ UNCHANGED <<seed_ranges, range_maps, pc, seeds, seed_idx, range_idx,
                   dest_ranges, new_ranges, lowest_location, solution, call,
                   first_run, hand>>

\* the maps are exhausted: lowest_location is updated, on to the next seed
P1Lowest ==
    /\ pc = "p1_map"
    /\ map_idx > Len(range_maps)
    /\ lowest_location' = UpdateLowest(lowest_location, value)
    /\ seed_idx' = seed_idx + 1
    /\ pc' = "p1_seed"
    /\ UNCHANGED <<seed_ranges, range_maps, seeds, map_idx, range_idx, value,
                   dest_ranges, new_ranges, solution, call,
                   first_run, hand>>

\* lowest_location.unwrap() after the loop over the seeds
P1Return ==
    /\ pc = "p1_seed"
    /\ seed_idx > Len(seeds)
    /\ \/ /\ lowest_location = None
          /\ pc' = "panic"
          /\ UNCHANGED solution
       \/ /\ lowest_location # None
          /\ solution' = lowest_location[1]
          /\ pc' = "p1_done"
    /\ UNCHANGED <<seed_ranges, range_maps, seeds, seed_idx, map_idx,
                   range_idx, value, dest_ranges, new_ranges,
                   lowest_location, call,
                   first_run, hand>>

\* solve_part2 is called: lowest_location is None
CallSolvePart2 ==
    /\ pc = "start"
    /\ lowest_location' = None
    /\ seed_idx' = 1
    /\ pc' = "p2_seed"
    /\ UNCHANGED <<seed_ranges, range_maps, seeds, map_idx, range_idx, value,
                   dest_ranges, new_ranges, solution, call,
                   first_run, hand>>

\* Mutant of P2NextSeed: dest_ranges outlives the seed range and the call, the
\* seed range is pushed onto what is left in it
P2NextSeedKeepsRanges ==
    /\ pc = "p2_seed"
    /\ seed_idx <= Len(seed_ranges)
    /\ dest_ranges' = Append(dest_ranges, seed_ranges[seed_idx])
    /\ new_ranges' = <<>>
    /\ map_idx' = 1
    /\ pc' = "p2_map"
    /\ UNCHANGED <<seed_ranges, range_maps, seeds, seed_idx, range_idx, value,
                   lowest_location, solution, call, first_run, hand>>

\* Mutant of P2NextSeed: the seed range is moved out of seed_ranges, an empty
\* default is left in its place
P2NextSeedTakes ==
    /\ pc = "p2_seed"
    /\ seed_idx <= Len(seed_ranges)
    /\ dest_ranges' = <<seed_ranges[seed_idx]>>
    /\ seed_ranges' = [seed_ranges EXCEPT ![seed_idx] = Range(0, 0)]
    /\ new_ranges' = <<>>
    /\ map_idx' = 1
    /\ pc' = "p2_map"
    /\ UNCHANGED <<range_maps, seeds, seed_idx, range_idx, value,
                   lowest_location, solution, call, first_run, hand>>

\* for seed_range in seed_ranges { let mut dest_ranges = vec![seed_range.clone()];
P2NextSeed ==
    /\ pc = "p2_seed"
    /\ seed_idx <= Len(seed_ranges)
    /\ dest_ranges' = <<seed_ranges[seed_idx]>>
    /\ new_ranges' = <<>>
    /\ map_idx' = 1
    /\ pc' = "p2_map"
    /\ UNCHANGED <<seed_ranges, range_maps, seeds, seed_idx, range_idx, value,
                   lowest_location, solution, call,
                   first_run, hand>>

\* for range_map in range_maps { let mut new_ranges = vec![];
P2NextMap ==
    /\ pc = "p2_map"
    /\ map_idx <= Len(range_maps)
    /\ new_ranges' = <<>>
    /\ range_idx' = 1
    /\ pc' = "p2_range"
    /\ UNCHANGED <<seed_ranges, range_maps, seeds, seed_idx, map_idx, value,
                   dest_ranges, lowest_location, solution, call,
                   first_run, hand>>

\* for range in dest_ranges { new_ranges.extend(range_map.map_source_range...(&range)) }
P2Range ==
    /\ pc = "p2_range"
    /\ range_idx <= Len(dest_ranges)
    /\ new_ranges' = new_ranges \o
           map_source_range_to_destination_range(range_maps[map_idx],
                                                 dest_ranges[range_idx])
    /\ range_idx' = range_idx + 1
    /\ UNCHANGED <<seed_ranges, range_maps, pc, seeds, seed_idx, map_idx,
                   value, dest_ranges, lowest_location, solution, call,
                   first_run, hand>>

\* Mutant of P2EndMap: new_ranges is appended to dest_ranges, not assigned
P2EndMapExtends ==
    /\ pc = "p2_range"
    /\ range_idx > Len(dest_ranges)
    /\ dest_ranges' = dest_ranges \o new_ranges
    /\ map_idx' = map_idx + 1
    /\ pc' = "p2_map"
    /\ UNCHANGED <<seed_ranges, range_maps, seeds, seed_idx, range_idx, value,
                   new_ranges, lowest_location, solution, call,
                   first_run, hand>>

\* Mutant of P2EndMap: the iterator over range_maps does not advance, the same
\* RangeMap is given the collection again
P2EndMapStays ==
    /\ pc = "p2_range"
    /\ range_idx > Len(dest_ranges)
    /\ dest_ranges' = new_ranges
    /\ pc' = "p2_map"
    /\ UNCHANGED <<seed_ranges, range_maps, seeds, seed_idx, map_idx, range_idx,
                   value, new_ranges, lowest_location, solution, call,
                   first_run, hand>>

\* dest_ranges = new_ranges; } on to the next map
P2EndMap ==
    /\ pc = "p2_range"
    /\ range_idx > Len(dest_ranges)
    /\ dest_ranges' = new_ranges
    /\ map_idx' = map_idx + 1
    /\ pc' = "p2_map"
    /\ UNCHANGED <<seed_ranges, range_maps, seeds, seed_idx, range_idx, value,
                   new_ranges, lowest_location, solution, call,
                   first_run, hand>>

\* the maps are exhausted: run_lowest_location = min of the starts, unwrapped;
\* lowest_location is updated, on to the next seed range
P2Lowest ==
    /\ pc = "p2_map"
    /\ map_idx > Len(range_maps)
    /\ \/ /\ MinStart(dest_ranges) = None
          /\ pc' = "panic"
          /\ UNCHANGED <<lowest_location, seed_idx,
                   first_run, hand>>
       \/ /\ MinStart(dest_ranges) # None
          /\ lowest_location' =
                 UpdateLowest(lowest_location, MinStart(dest_ranges)[1])
          /\ seed_idx' = seed_idx + 1
          /\ pc' = "p2_seed"
    /\ UNCHANGED <<seed_ranges, range_maps, seeds, map_idx, range_idx, value,
                   dest_ranges, new_ranges, solution, call,
                   first_run, hand>>

\* Mutant of P2Return: unwrap_or(0), an empty minimum is returned as 0
P2ReturnDefault ==
    /\ pc = "p2_seed"
    /\ seed_idx > Len(seed_ranges)
    /\ solution' = IF lowest_location = <<>> THEN 0 ELSE lowest_location[1]
    /\ pc' = "p2_done"
    /\ UNCHANGED <<seed_ranges, range_maps, seeds, seed_idx, map_idx,
                   range_idx, value, dest_ranges, new_ranges,
                   lowest_location, call, first_run, hand>>

\* lowest_location.unwrap() after the loop over the seed ranges
P2Return ==
    /\ pc = "p2_seed"
    /\ seed_idx > Len(seed_ranges)
    /\ \/ /\ lowest_location = None
          /\ pc' = "panic"
          /\ UNCHANGED solution
       \/ /\ lowest_location # None
          /\ solution' = lowest_location[1]
          /\ pc' = "p2_done"
    /\ UNCHANGED <<seed_ranges, range_maps, seeds, seed_idx, map_idx,
                   range_idx, value, dest_ranges, new_ranges,
                   lowest_location, call,
                   first_run, hand>>

\* The orders the caller can give the seed ranges in
Permutations(ranges) ==
    {[i \in 1..Len(ranges) |-> ranges[p[i]]] :
        p \in {q \in [1..Len(ranges) -> 1..Len(ranges)] :
                  \A i, j \in 1..Len(ranges) : q[i] = q[j] => i = j}}

\* solve_part1 has returned and is called a second time on the same input;
\* the function's locals start afresh, as in CallSolvePart1
CallSolvePart1Again ==
    /\ pc = "p1_done"
    /\ first_run = <<>>
    /\ first_run' = [seed_ranges |-> seed_ranges, solution |-> solution]
    /\ seeds' = FlatSeeds(seed_ranges)
    /\ lowest_location' = None
    /\ seed_idx' = 1
    /\ pc' = "p1_seed"
    /\ UNCHANGED <<seed_ranges, range_maps, map_idx, range_idx, value,
                   dest_ranges, new_ranges, solution, call, hand>>

\* solve_part2 has returned and is called a second time, on the same RangeMaps
\* and the same seed ranges in an order of the caller's choice (the same order
\* included); the function's locals start afresh, as in CallSolvePart2
CallSolvePart2Again ==
    /\ pc = "p2_done"
    /\ first_run = <<>>
    /\ first_run' = [seed_ranges |-> seed_ranges, solution |-> solution]
    /\ seed_ranges' \in Permutations(seed_ranges)
    /\ lowest_location' = None
    /\ seed_idx' = 1
    /\ pc' = "p2_seed"
    /\ UNCHANGED <<range_maps, seeds, map_idx, range_idx, value,
                   dest_ranges, new_ranges, solution, call, hand>>

Next ==
    \/ CallSolvePart1
    \/ P1NextSeed
    \/ P1Map
    \/ P1Lowest
    \/ P1Return
    \/ CallSolvePart2
    \/ P2NextSeed
    \/ P2NextMap
    \/ P2Range
    \/ P2EndMap
    \/ P2Lowest
    \/ P2Return
    \/ CallSolvePart1Again
    \/ CallSolvePart2Again

Spec == Init /\ [][Next]_vars

\* The solvers are plain synchronous functions: a call that can take a step
\* takes it
SpecFair == Spec /\ WF_vars(Next)

----------------------------------------------------------------------------
(* Vocabulary of the claims about one RangeMap *)

\* The RangeMap the lookups of SpecStage are called on
TheMap == range_maps[1]

\* destination.start - source.start of a mapping
Delta(m) == m.dest.start - m.source.start

\* Number of values of a range
RangeLen(r) == r.end - r.start + 1

\* The range shifted by d
Shift(r, d) == Range(r.start + d, r.end + d)

\* Indices of the mappings whose source range contains v
Containing(rm, v) ==
    {i \in 1..Len(rm) : rm[i].source.start <= v /\ v <= rm[i].source.end}

\* Indices of the mappings whose source range shares a value with r
Overlapping(rm, r) ==
    {i \in 1..Len(rm) :
        \E x \in r.start..r.end : x \in rm[i].source.start..rm[i].source.end}

\* The least index of a non-empty set of indices: the first in insertion order
First(S) == CHOOSE i \in S : \A j \in S : i <= j

\* The source ranges of the RangeMap are pairwise disjoint
DisjointSources(rm) ==
    \A i, j \in 1..Len(rm) :
        i # j => (rm[i].source.start..rm[i].source.end)
                    \cap (rm[j].source.start..rm[j].source.end) = {}

\* How many times x occurs in the sequence
Count(seq, x) == Cardinality({k \in 1..Len(seq) : seq[k] = x})

\* The two sequences hold the same elements the same number of times
SameElements(s1, s2) ==
    /\ Len(s1) = Len(s2)
    /\ \A k \in 1..Len(s1) : Count(s1, s1[k]) = Count(s2, s1[k])

RECURSIVE SumLen(_)
SumLen(seq) ==
    IF seq = <<>> THEN 0 ELSE RangeLen(Head(seq)) + SumLen(Tail(seq))

----------------------------------------------------------------------------
(* Claims about one RangeMap, under SpecStage *)

C3_MapRangeKeepsLength ==
    call.fn = "map_range" => SumLen(call.ret) = RangeLen(call.arg)

\* C3 witness: an input range of three values or more was cut in three.
C3_Witness ==
    /\ call.fn = "map_range"
    /\ RangeLen(call.arg) >= 3
    /\ Len(call.ret) = 3

\* C4: with pairwise disjoint sources, a range that lies inside one mapping's
\* source range maps to exactly one range, the input shifted by that
\* mapping's delta (hence of the same length).
C4_MapRangeContained ==
    (call.fn = "map_range" /\ DisjointSources(TheMap)) =>
        \A i \in 1..Len(TheMap) :
            (/\ TheMap[i].source.start <= call.arg.start
             /\ call.arg.end <= TheMap[i].source.end)
            => /\ call.ret = <<Shift(call.arg, Delta(TheMap[i]))>>
               /\ RangeLen(call.ret[1]) = RangeLen(call.arg)

\* C4 witness: the containing mapping is the second of two disjoint ones, is
\* longer than the input and shifts it.
C4_Witness ==
    /\ call.fn = "map_range"
    /\ Len(TheMap) = 2
    /\ DisjointSources(TheMap)
    /\ TheMap[2].source.start <= call.arg.start
    /\ call.arg.end < TheMap[2].source.end
    /\ Delta(TheMap[2]) # 0
    /\ call.ret # <<call.arg>>

\* C5: a range that overlaps no source range of the RangeMap (an empty
\* RangeMap included) maps to exactly one range, the input itself.
C5_MapRangeOutside ==
    (call.fn = "map_range" /\ Overlapping(TheMap, call.arg) = {}) =>
        call.ret = <<call.arg>>

\* C5 witness: the RangeMap has two mappings, neither meets the input range.
C5_Witness ==
    /\ call.fn = "map_range"
    /\ Len(TheMap) = 2
    /\ Overlapping(TheMap, call.arg) = {}
    /\ call.ret = <<call.arg>>

----------------------------------------------------------------------------
(* Vocabulary of the claims about the solvers *)

\* The least element of a non-empty set of numbers
SetMin(S) == CHOOSE x \in S : \A y \in S : x <= y

\* The concatenation of map_interval over every range of the collection
RECURSIVE ConcatMapped(_, _)
ConcatMapped(rm, ranges) ==
    IF ranges = <<>>
    THEN <<>>
    ELSE map_source_range_to_destination_range(rm, Head(ranges))
         \o ConcatMapped(rm, Tail(ranges))

\* The collection after the first k RangeMaps, in order, each applied once
RECURSIVE StagesApplied(_, _)
StagesApplied(ranges, k) ==
    IF k = 0
    THEN ranges
    ELSE ConcatMapped(range_maps[k], StagesApplied(ranges, k - 1))

\* The least start of the final collection of one seed range
SeedBest(seed_range) ==
    SetMin({r.start : r \in
        {StagesApplied(<<seed_range>>, Len(range_maps))[k] :
            k \in 1..Len(StagesApplied(<<seed_range>>, Len(range_maps)))}})

\* The least of the results of the first n seed ranges
BestOfFirst(n) == SetMin({SeedBest(seed_ranges[j]) : j \in 1..n})

\* v pushed by map_value through the first k RangeMaps, in order
RECURSIVE ChainValue(_, _)
ChainValue(v, k) ==
    IF k = 0
    THEN v
    ELSE map_source_value_to_destination(range_maps[k], ChainValue(v, k - 1))

\* All integer members of all seed ranges
SeedMembers ==
    UNION {seed_ranges[j].start..seed_ranges[j].end : j \in 1..Len(seed_ranges)}

\* The result of the exhaustive point-wise mode
PointwiseMin == SetMin({ChainValue(v, Len(range_maps)) : v \in SeedMembers})

\* The two numbers per seed range that solve_part1 is said to evaluate
SeedNumbers ==
    UNION {{seed_ranges[j].start, seed_ranges[j].end - seed_ranges[j].start + 1} :
              j \in 1..Len(seed_ranges)}

\* At every RangeMap, every range of every seed's working collection overlaps
\* the source range of at most one mapping
SingleOverlapEverywhere ==
    \A j \in 1..Len(seed_ranges) : \A k \in 1..Len(range_maps) :
        LET coll == StagesApplied(<<seed_ranges[j]>>, k - 1)
        IN  \A n \in 1..Len(coll) :
                Cardinality(Overlapping(range_maps[k], coll[n])) <= 1

IsCanonical == <<seed_ranges, range_maps>> = CanonicalInput

----------------------------------------------------------------------------
(* Claims about the solvers, under Spec *)

\* C6: solve_part2 starts each seed range's working collection as that single
\* range, applies the RangeMaps in order, each replacing the collection by the
\* concatenation of map_interval over every range in it (each range given to
\* the RangeMap once, in turn), takes the least start of the final collection
\* as the seed's result, and returns the least of the seeds' results.
C6_Part2Pipeline ==
    /\ pc \in {"p2_map", "p2_range"} =>
          dest_ranges = StagesApplied(<<seed_ranges[seed_idx]>>, map_idx - 1)
    /\ pc = "p2_range" =>
          new_ranges = ConcatMapped(range_maps[map_idx],
                                    SubSeq(dest_ranges, 1, range_idx - 1))
    /\ pc \in {"p2_seed", "p2_map", "p2_range"} =>
          lowest_location =
              IF seed_idx = 1 THEN None ELSE Some(BestOfFirst(seed_idx - 1))
    /\ pc = "p2_done" => solution = BestOfFirst(Len(seed_ranges))

\* C6 witness: solve_part2 returned on two seed ranges and two RangeMaps; the
\* second seed gave the result, from a collection of two ranges or more that
\* entered the second RangeMap.
C6_Witness ==
    /\ pc = "p2_done"
    /\ Len(seed_ranges) = 2
    /\ Len(range_maps) = 2
    /\ SeedBest(seed_ranges[2]) < SeedBest(seed_ranges[1])
    /\ Len(StagesApplied(<<seed_ranges[2]>>, 1)) >= 2
    /\ solution = SeedBest(seed_ranges[2])

\* C7: on the canonical example solve_part2 returns 46.
C7_CanonicalPart2 ==
    (pc = "p2_done" /\ IsCanonical) => solution = 46

\* C7 witness: solve_part2 returned on the canonical example.
C7_Witness ==
    /\ pc = "p2_done"
    /\ IsCanonical
    /\ solution = 46

\* C8: when every range of every working collection overlaps at most one
\* mapping's source range at each RangeMap, solve_part2 returns the least of
\* map_value chained through all RangeMaps over all members of all seed ranges.
C8_IntervalEqualsPointwise ==
    (pc = "p2_done" /\ SingleOverlapEverywhere) => solution = PointwiseMin

\* C8 witness: solve_part2 returned under the single-overlap condition, with
\* two RangeMaps, a seed range that was cut, and a result that is not merely
\* the least seed start.
C8_Witness ==
    /\ pc = "p2_done"
    /\ SingleOverlapEverywhere
    /\ Len(range_maps) = 2
    /\ \E j \in 1..Len(seed_ranges) :
          Len(StagesApplied(<<seed_ranges[j]>>, 2)) >= 2
    /\ solution # SetMin({seed_ranges[j].start : j \in 1..Len(seed_ranges)})
    /\ solution = PointwiseMin

\* C9 as stated: solve_part1 returns the least of map_value chained through all
\* RangeMaps over every integer member of every seed range.
C9_Original ==
    pc = "p1_done" => solution = PointwiseMin

\* C9 as amended: solve_part1 returns the least of map_value chained through
\* all RangeMaps over two numbers per seed range, its start and its length
\* end - start + 1.
C9_Part1StartAndLength ==
    pc = "p1_done" =>
        solution = SetMin({ChainValue(x, Len(range_maps)) : x \in SeedNumbers})

\* C9 witness: solve_part1 returned a value that differs from the point-wise
\* minimum and from the least of the two numbers per range (a mapping acted).
C9_Witness ==
    /\ pc = "p1_done"
    /\ solution # PointwiseMin
    /\ solution # SetMin(SeedNumbers)
    /\ Len(seed_ranges) = 2

\* C10: the seeds solve_part1 evaluates are, range by range, start and
\* end - start + 1; each is pushed through map_value of every RangeMap in
\* order; the least result is returned; the canonical example gives 35.
C10_Part1Seeds ==
    /\ pc \in {"p1_seed", "p1_map", "p1_done"} =>
          /\ Len(seeds) = 2 * Len(seed_ranges)
          /\ \A j \in 1..Len(seed_ranges) :
                /\ seeds[2 * j - 1] = seed_ranges[j].start
                /\ seeds[2 * j] = seed_ranges[j].end - seed_ranges[j].start + 1
    /\ pc = "p1_map" => value = ChainValue(seeds[seed_idx], map_idx - 1)
    /\ pc = "p1_done" =>
          solution = SetMin({ChainValue(seeds[i], Len(range_maps)) :
                                i \in 1..Len(seeds)})
    /\ (pc = "p1_done" /\ IsCanonical) => solution = 35

\* C10 witness: solve_part1 returned 35 on the canonical example, whose seeds
\* are 79, 14, 55, 13.
C10_Witness ==
    /\ pc = "p1_done"
    /\ IsCanonical
    /\ seeds = <<79, 14, 55, 13>>
    /\ solution = 35

----------------------------------------------------------------------------
(* Further claims about one RangeMap, under SpecStage *)

\* All the orderings of the mappings of a RangeMap
Orderings(rm) ==
    {[i \in 1..Len(rm) |-> rm[p[i]]] :
        p \in {f \in [1..Len(rm) -> 1..Len(rm)] :
                  \A a, b \in 1..Len(rm) : a # b => f[a] # f[b]}}

\* The values covered by the ranges of a sequence
Covered(ranges) ==
    UNION {ranges[k].start..ranges[k].end : k \in 1..Len(ranges)}

IsScenarioA == range_maps = <<RangeMapNew(ScenarioATriples)>>

C16_MapValueAnyOrder ==
    (call.fn = "map_value" /\ DisjointSources(TheMap)) =>
        \A rm \in Orderings(TheMap) :
            map_source_value_to_destination(rm, call.arg) = call.ret

\* C16 witness: two different disjoint mappings, the value lies in the second
\* and is moved by it.
C16_Witness ==
    /\ call.fn = "map_value"
    /\ Len(TheMap) = 2
    /\ DisjointSources(TheMap)
    /\ Containing(TheMap, call.arg) = {2}
    /\ call.ret # call.arg

C18_IntervalAgreesWithValues ==
    (call.fn = "map_range" /\ DisjointSources(TheMap)) =>
        Covered(call.ret) =
            {map_source_value_to_destination(TheMap, v) :
                v \in call.arg.start..call.arg.end}


----------------------------------------------------------------------------
(* Further claims about the solvers, under Spec *)

IsScenarioB == <<seed_ranges, range_maps>> = ScenarioBInput

\* The seed ranges as a bag: how many times each range occurs
SeedBag(ranges) ==
    [r \in {ranges[i] : i \in 1..Len(ranges)} |->
        Cardinality({i \in 1..Len(ranges) : ranges[i] = r})]

\* A solver is between its call and its return
InPart1 == pc \in {"p1_seed", "p1_map"}
InPart2 == pc \in {"p2_seed", "p2_map", "p2_range"}

\* C12: scenario B. In solve_part1 on the seed range [79, 92], the
\* seed-to-soil map {(50,98,2), (52,50,48)} and a soil-to-fertilizer map
\* without mappings, the first seed 79 is 81 after the first map and 81 after
\* the second.
C12_ScenarioB ==
    (IsScenarioB /\ pc = "p1_map" /\ seed_idx = 1) =>
        /\ map_idx = 1 => value = 79
        /\ map_idx \in {2, 3} => value = 81

\* C12 witness: seed 79 of scenario B has gone through both maps.
C12_Witness ==
    /\ IsScenarioB
    /\ pc = "p1_map"
    /\ seed_idx = 1
    /\ map_idx = 3
    /\ value = 81

\* C13: a second call of solve_part1 or of solve_part2 on the same RangeMaps
\* and the same seed ranges returns what the first call returned, and does not
\* abort: nothing the first call left behind reaches the second.
C13_SecondRunSame ==
    /\ (pc \in {"p1_done", "p2_done"} /\ first_run # <<>>
           /\ first_run.seed_ranges = seed_ranges) =>
          solution = first_run.solution
    /\ first_run # <<>> => pc # "panic"

\* C13 witness: solve_part2 returned a second time on the same two seed ranges,
\* after a run that left mapped ranges and a minimum behind, the result being
\* no start of a seed range.
C13_Witness ==
    /\ pc = "p2_done"
    /\ first_run # <<>>
    /\ first_run.seed_ranges = seed_ranges
    /\ Len(seed_ranges) = 2
    /\ range_maps # <<>>
    /\ \A j \in 1..Len(seed_ranges) : solution # seed_ranges[j].start
    /\ solution = first_run.solution

C19_PerSeedIndependent ==
    /\ pc = "p2_done" =>
          \A j \in 1..Len(seed_ranges) :
              /\ solution <= SeedBest(seed_ranges[j])
              /\ Len(seed_ranges) = 1 => solution = SeedBest(seed_ranges[j])
    /\ pc = "p2_done" =>
          \E j \in 1..Len(seed_ranges) : solution = SeedBest(seed_ranges[j])
    /\ (pc = "p2_done" /\ first_run # <<>>) =>
          /\ SeedBag(first_run.seed_ranges) = SeedBag(seed_ranges)
          /\ solution = first_run.solution

\* C19 witness: solve_part2 returned a second time, on the two seed ranges of
\* the first call in the other order, the two having different results alone.
C19_Witness ==
    /\ pc = "p2_done"
    /\ first_run # <<>>
    /\ Len(seed_ranges) = 2
    /\ first_run.seed_ranges = <<seed_ranges[2], seed_ranges[1]>>
    /\ SeedBest(seed_ranges[1]) < SeedBest(seed_ranges[2])
    /\ solution = SeedBest(seed_ranges[1])

\* C20: no step changes the RangeMaps; no step of a solver changes the seed
\* ranges, and between two calls they stay the same bag of ranges; the steps
\* of solve_part1 change only the seed in hand, the running minimum and the
\* loop positions, those of solve_part2 only the working collections, the
\* running minimum and the loop positions (and, on return, the result).
C20_Frame ==
    [][/\ range_maps' = range_maps
       /\ SeedBag(seed_ranges') = SeedBag(seed_ranges)
       /\ pc \notin {"p1_done", "p2_done"} => seed_ranges' = seed_ranges
       /\ (InPart1 \/ InPart2) => (seeds' = seeds /\ first_run' = first_run)
       /\ InPart1 => (dest_ranges' = dest_ranges /\ new_ranges' = new_ranges)
       /\ InPart2 => value' = value]_vars

\* C20 witness: solve_part2 returned on two seed ranges and at least one
\* RangeMap, the working collection it ended with not being the seed range it
\* started from, and the running minimum being set.
C20_Witness ==
    /\ pc = "p2_done"
    /\ Len(seed_ranges) = 2
    /\ range_maps # <<>>
    /\ dest_ranges # <<seed_ranges[2]>>
    /\ lowest_location = <<solution>>


----------------------------------------------------------------------------
(* Claims about the runs of the solvers, under SpecFair *)

\* A solver has returned or aborted
Finished == pc \in {"p1_done", "p2_done", "panic"}

\* C21: every call of solve_part1 and of solve_part2 ends (the first and the
\* second: from some point on the last call made has ended), and on the way
\* every loop takes its items once each, in order: a RangeMap is left only
\* when every range of the collection that entered it was given to it (as
\* many map_interval calls as ranges), a seed only when every RangeMap was
\* applied to it, and the solver returns only when every seed was taken.
C21_Terminates ==
    /\ <>[]Finished
    /\ [][/\ (pc = "p2_range" /\ pc' = "p2_range") =>
               (range_idx' = range_idx + 1 /\ dest_ranges' = dest_ranges
                /\ map_idx' = map_idx /\ seed_idx' = seed_idx)
          /\ (pc = "p2_range" /\ pc' # "p2_range") =>
               (range_idx = Len(dest_ranges) + 1 /\ map_idx' = map_idx + 1
                /\ seed_idx' = seed_idx)
          /\ (pc = "p2_map" /\ pc' = "p2_range") =>
               (range_idx' = 1 /\ map_idx' = map_idx /\ seed_idx' = seed_idx)
          /\ (pc = "p2_map" /\ pc' = "p2_seed") =>
               (map_idx = Len(range_maps) + 1 /\ seed_idx' = seed_idx + 1)
          /\ (pc = "p2_seed" /\ pc' = "p2_map") =>
               (map_idx' = 1 /\ seed_idx' = seed_idx)
          /\ (pc = "p2_seed" /\ pc' \in {"p2_done", "panic"}) =>
               seed_idx = Len(seed_ranges) + 1
          /\ (pc = "p1_map" /\ pc' = "p1_map") =>
               (map_idx' = map_idx + 1 /\ seed_idx' = seed_idx)
          /\ (pc = "p1_map" /\ pc' = "p1_seed") =>
               (map_idx = Len(range_maps) + 1 /\ seed_idx' = seed_idx + 1)
          /\ (pc = "p1_seed" /\ pc' = "p1_map") =>
               (map_idx' = 1 /\ seed_idx' = seed_idx)
          /\ (pc = "p1_seed" /\ pc' \in {"p1_done", "panic"}) =>
               seed_idx = Len(seeds) + 1
          /\ (pc = "start" \/ Finished) =>
               (pc' \in {"p1_seed", "p2_seed"} /\ seed_idx' = 1)]_vars

\* C21 witness: solve_part2 has returned after two seed ranges and two
\* RangeMaps, the second RangeMap having been entered by a collection of two
\* ranges or more.
C21_Witness ==
    /\ pc = "p2_done"
    /\ Len(seed_ranges) = 2
    /\ Len(range_maps) = 2
    /\ seed_idx = 3
    /\ map_idx = 3
    /\ range_idx >= 3


----------------------------------------------------------------------------
(* Claims about the pieces of map_interval, under SpecStage *)

\* The ranges share no value
DisjointRanges(a, b) == a.end < b.start \/ b.end < a.start

\* Range a lies inside range b
Inside(a, b) == b.start <= a.start /\ a.end <= b.end

\* C23: when map_interval applies a mapping M to r, the translated piece lies
\* inside M's destination range, every unchanged remainder lies inside r and
\* outside M's source range, and the overlap and the remainders are pairwise
\* disjoint and cover exactly r.
C23_PiecesPartitionInput ==
    (call.fn = "map_range" /\ Overlapping(TheMap, call.arg) # {}) =>
        LET r == call.arg
            m == TheMap[First(Overlapping(TheMap, r))]
            overlap == Shift(call.ret[1], 0 - Delta(m))
            pieces == [k \in 1..Len(call.ret) |->
                          IF k = 1 THEN overlap ELSE call.ret[k]]
        IN  /\ Inside(call.ret[1], m.dest)
            /\ Inside(overlap, m.source)
            /\ \A k \in 2..Len(call.ret) :
                  /\ Inside(call.ret[k], r)
                  /\ DisjointRanges(call.ret[k], m.source)
            /\ \A j, k \in 1..Len(pieces) :
                  j # k => DisjointRanges(pieces[j], pieces[k])
            /\ Covered(pieces) = r.start..r.end

\* C23 witness: a mapping that moves its source was applied to a range that
\* sticks out of the source on both sides.
C23_Witness ==
    /\ call.fn = "map_range"
    /\ Overlapping(TheMap, call.arg) # {}
    /\ Delta(TheMap[First(Overlapping(TheMap, call.arg))]) # 0
    /\ Len(call.ret) = 3
    /\ call.ret[2].end < call.ret[3].start

\* C24 as stated: with pairwise disjoint sources, map_interval returns the
\* same set of ranges for every ordering of the mappings.
C24_MapRangeAnyOrder ==
    (call.fn = "map_range" /\ DisjointSources(TheMap)) =>
        \A rm \in Orderings(TheMap) :
            LET other == map_source_range_to_destination_range(rm, call.arg)
            IN  {other[k] : k \in 1..Len(other)}
                    = {call.ret[k] : k \in 1..Len(call.ret)}

\* C25: every subtraction of the lookups stays in usize: value - source.start
\* for the mapping map_value applies; overlap_start - source.start,
\* overlap_end - overlap_start and, when a left part is pushed,
\* source.start - 1 for the mapping map_interval applies; also when the
\* mapping moves its source down.  What is returned is non-negative.
C25_NoUnderflow ==
    /\ (call.fn = "map_value" /\ Containing(TheMap, call.arg) # {}) =>
          LET m == TheMap[First(Containing(TheMap, call.arg))]
          IN  /\ call.arg - m.source.start >= 0
              /\ call.ret = m.dest.start + (call.arg - m.source.start)
    /\ (call.fn = "map_range" /\ Overlapping(TheMap, call.arg) # {}) =>
          LET r == call.arg
              m == TheMap[First(Overlapping(TheMap, r))]
              overlap_start == Max2(r.start, m.source.start)
              overlap_end == Min2(r.end, m.source.end)
          IN  /\ overlap_start - m.source.start >= 0
              /\ overlap_end - overlap_start >= 0
              /\ r.start < m.source.start => m.source.start - 1 >= 0
    /\ call.fn = "map_value" => (call.abort = FALSE /\ call.ret >= 0)
    /\ call.fn = "map_range" =>
          /\ call.abort = FALSE
          /\ \A k \in 1..Len(call.ret) :
                call.ret[k].start >= 0 /\ call.ret[k].end >= 0

\* C25 witness: map_value applied a mapping that moves its source down, to a
\* value above the source's start.
C25_Witness ==
    /\ call.fn = "map_value"
    /\ Containing(TheMap, call.arg) # {}
    /\ Delta(TheMap[First(Containing(TheMap, call.arg))]) < 0
    /\ call.arg > TheMap[First(Containing(TheMap, call.arg))].source.start
    /\ call.ret < call.arg

----------------------------------------------------------------------------
(* Claims about the working collection of solve_part2, under Spec *)

\* C22: for each seed range, the lengths of the ranges of the working
\* collection add up to the length of the seed range, before the first
\* RangeMap and after every RangeMap; within a RangeMap the ranges gathered so
\* far add up to the lengths of the ranges already given to it.
C22_PipelineKeepsLength ==
    /\ pc = "p2_map" => SumLen(dest_ranges) = RangeLen(seed_ranges[seed_idx])
    /\ pc = "p2_range" =>
          /\ SumLen(dest_ranges) = RangeLen(seed_ranges[seed_idx])
          /\ SumLen(new_ranges) = SumLen(SubSeq(dest_ranges, 1, range_idx - 1))

\* C22 witness: after two RangeMaps the seed range of two values or more is
\* in two pieces or more.
C22_Witness ==
    /\ pc = "p2_map"
    /\ map_idx = 3
    /\ Len(dest_ranges) >= 2
    /\ dest_ranges # <<seed_ranges[seed_idx]>>
    /\ SumLen(dest_ranges) = RangeLen(seed_ranges[seed_idx])

\* C26: every range of the working collection of solve_part2, and of the
\* collection being gathered, has start <= end.
C26_RangesWellFormed ==
    (pc \in {"p2_map", "p2_range", "p2_seed", "p2_done"}) =>
        /\ \A k \in 1..Len(dest_ranges) :
              dest_ranges[k].start <= dest_ranges[k].end
        /\ \A k \in 1..Len(new_ranges) :
              new_ranges[k].start <= new_ranges[k].end

\* C26 witness: a RangeMap has cut a range whose start is the start of the
\* mapping's source, so that no left part was pushed.
C26_Witness ==
    /\ pc = "p2_range"
    /\ range_idx = 2
    /\ Len(new_ranges) = 2
    /\ \E i \in 1..Len(range_maps[map_idx]) :
          /\ range_maps[map_idx][i].source.start = dest_ranges[1].start
          /\ range_maps[map_idx][i].source.end < dest_ranges[1].end
          /\ new_ranges[2].start = range_maps[map_idx][i].source.end + 1


----------------------------------------------------------------------------
(* SpecHand: CardHand::new and set_joker_wild (utils/camelcards) *)

\* [Card; 5]
HandLen == 5

\* The Card values hands are drawn from: Card::Jack and five other cards,
\* enough for five different cards without a Jack
Cards == {"Jack", "Two", "Three", "Four", "Five", "Six"}

Hands == [1..HandLen -> Cards]

\* enum HandType, in declaration order, which #[derive(Ord)] compares by
HandTypes ==
    <<"HighCard", "OnePair", "TwoPair", "ThreeKind", "FullHouse", "FourKind",
      "FiveKind">>

\* Position of a HandType in the declaration order
HandTypeOrd(t) == CHOOSE k \in 1..Len(HandTypes) : HandTypes[k] = t

\* card_counts: how many of each card there is in the hand
CardCounts(cards) ==
    [c \in {cards[i] : i \in 1..Len(cards)} |->
        Cardinality({i \in 1..Len(cards) : cards[i] = c})]

\* card_counts.values() collected and sorted: the counts in ascending order
RECURSIVE SortedValues(_, _)
SortedValues(card_counts, keys) ==
    IF keys = {}
    THEN <<>>
    ELSE LET k == CHOOSE k \in keys :
                      \A j \in keys : card_counts[k] <= card_counts[j]
         IN  <<card_counts[k]>> \o SortedValues(card_counts, keys \ {k})

determine_hand_type(cards) ==
    LET card_counts == CardCounts(cards)
        ordered_counts == SortedValues(card_counts, DOMAIN card_counts)
    IN  CASE Len(ordered_counts) = 1 -> Some("FiveKind")
          [] Len(ordered_counts) = 2 ->
                IF ordered_counts[2] = 4
                THEN Some("FourKind")
                ELSE Some("FullHouse")
          [] Len(ordered_counts) = 3 ->
                IF ordered_counts[3] = 3
                THEN Some("ThreeKind")
                ELSE Some("TwoPair")
          [] Len(ordered_counts) = 4 -> Some("OnePair")
          [] Len(ordered_counts) = 5 -> Some("HighCard")
          [] OTHER -> None

\* panic!("Invalid hand!")
InvalidHand == "Invalid hand!"

get_joker_wild_hand_type(hand_type, jokers) ==
    CASE hand_type = "HighCard" ->
            (CASE jokers = 0 -> hand_type
               [] jokers = 1 -> "OnePair"
               [] OTHER -> InvalidHand)
      [] hand_type = "OnePair" ->
            (CASE jokers = 0 -> hand_type
               [] jokers \in {1, 2} -> "ThreeKind"
               [] OTHER -> InvalidHand)
      [] hand_type = "TwoPair" ->
            (CASE jokers = 0 -> hand_type
               [] jokers = 1 -> "ThreeKind"
               [] jokers = 2 -> "FourKind"
               [] OTHER -> InvalidHand)
      [] hand_type = "ThreeKind" ->
            (CASE jokers = 0 -> hand_type
               [] jokers \in {1, 3} -> "FourKind"
               [] OTHER -> InvalidHand)
      [] hand_type = "FullHouse" ->
            (CASE jokers = 0 -> hand_type
               [] jokers \in {2, 3} -> "FiveKind"
               [] OTHER -> InvalidHand)
      [] hand_type = "FourKind" ->
            (CASE jokers = 0 -> hand_type
               [] jokers \in {1, 4} -> "FiveKind"
               [] OTHER -> InvalidHand)
      [] hand_type = "FiveKind" -> "FiveKind"

\* cards.iter().filter(|&&c| c == Card::Jack).count()
Jokers(cards) == Cardinality({i \in 1..Len(cards) : cards[i] = "Jack"})

InitHand ==
    /\ seed_ranges = <<>>
    /\ range_maps = <<>>
    /\ pc = "no_hand"
    /\ seeds = <<>>
    /\ seed_idx = 0
    /\ map_idx = 0
    /\ range_idx = 0
    /\ value = 0
    /\ dest_ranges = <<>>
    /\ new_ranges = <<>>
    /\ lowest_location = <<>>
    /\ solution = 0
    /\ call = NoCall
    /\ first_run = <<>>
    /\ hand = NoHand

\* CardHand::new(cards): the two unwraps and the panic of
\* get_joker_wild_hand_type abort the construction
CardHandNew ==
    /\ pc = "no_hand"
    /\ \E cards \in Hands :
         LET hand_type == determine_hand_type(cards)
             jokers == Jokers(cards)
         IN  IF hand_type = None
             THEN pc' = "panic" /\ hand' = [cards |-> cards]
             ELSE IF get_joker_wild_hand_type(hand_type[1], jokers)
                        = InvalidHand
                  THEN pc' = "panic" /\ hand' = [cards |-> cards]
                  ELSE /\ hand' =
                            [cards |-> cards,
                             hand_type |-> determine_hand_type(cards)[1],
                             hand_type_joker_wild |->
                                 get_joker_wild_hand_type(hand_type[1], jokers),
                             joker_wild |-> FALSE]
                       /\ pc' = "hand_built"
    /\ UNCHANGED <<seed_ranges, range_maps, seeds, seed_idx, map_idx,
                   range_idx, value, dest_ranges, new_ranges,
                   lowest_location, solution, call, first_run>>

\* set_joker_wild(joker_wild)
SetJokerWild ==
    /\ pc = "hand_built"
    /\ \E joker_wild \in BOOLEAN :
         hand' = [hand EXCEPT !.joker_wild = joker_wild]
    /\ UNCHANGED <<seed_ranges, range_maps, pc, seeds, seed_idx, map_idx,
                   range_idx, value, dest_ranges, new_ranges,
                   lowest_location, solution, call, first_run>>

NextHand ==
    \/ CardHandNew
    \/ SetJokerWild

SpecHand == InitHand /\ [][NextHand]_vars

----------------------------------------------------------------------------
(* Claim about the joker upgrade, under SpecHand *)

\* The hands obtained by replacing each Jack, from position i on, by any card
RECURSIVE Replacements(_, _)
Replacements(cards, i) ==
    IF i > Len(cards)
    THEN {cards}
    ELSE IF cards[i] = "Jack"
         THEN UNION {Replacements([cards EXCEPT ![i] = c], i + 1) : c \in Cards}
         ELSE Replacements(cards, i + 1)

\* The strongest HandType among the replacements
Strongest(cards) ==
    LET types == {determine_hand_type(h)[1] : h \in Replacements(cards, 1)}
    IN  CHOOSE t \in types : \A u \in types : HandTypeOrd(u) <= HandTypeOrd(t)

\* C27 as stated: CardHand::new panics on no hand of five cards, and the
\* joker-wild type it stores is the strongest HandType obtainable by
\* replacing each Jack by any card, never weaker than the plain type.
C27_JokerUpgrade ==
    /\ pc # "panic"
    /\ pc = "hand_built" =>
          /\ hand.hand_type_joker_wild = Strongest(hand.cards)
          /\ HandTypeOrd(hand.hand_type_joker_wild)
                 >= HandTypeOrd(hand.hand_type)

====
